---- MODULE Spec2Model ----
(***************************************************************************)
(* State-machine model of the DHIS2 data-transfer scripts.                 *)
(*                                                                         *)
(* The repository holds several independent scripts; one run executes one  *)
(* of them.  The variable "variant" says which script the run executes:    *)
(*   "stream" : the streaming pipeline with bounded concurrency            *)
(*              (src/unnamed/part_000, third script, lines 228-686)        *)
(*   "main1"  : the first DHIS2DataTransfer class  (src/main.js 19-359)    *)
(*   "main2"  : the second DHIS2DataTransfer class (src/main.js 368-664)   *)
(*                                                                         *)
(* JavaScript runs every callback to completion: an action of the model is *)
(* one such run, from one suspension point (await / event) to the next.    *)
(***************************************************************************)
EXTENDS Integers, Sequences, FiniteSets, TLC

\* ------------------------------------------------------------------ bounds
MaxOrgUnits == 2
MaxConcurrency == 2
MaxRows == 2
MaxBatchSize == 2
MaxDataSets == 2

\* ------------------------------------------------------- program constants
\* BatchProcessor: this.batchSize = options.batchSize || 100
DefaultStreamBatchSize == 100

VARIABLES
    variant,      \* which script this run executes
    batchSize,    \* configured batch size
    concurrency,  \* configured concurrency (streaming script)
    pc,           \* position of the orchestrator coroutine
    orgUnits,     \* number of org units the catalog returned (units are 1..orgUnits)
    queue,        \* processConcurrentOrgUnits: queue
    active,       \* processConcurrentOrgUnits: active (set of promises, by unit)
    results,      \* processConcurrentOrgUnits: results (promises in push order)
    completed,    \* processConcurrentOrgUnits: completed
    raceSet,      \* the promises handed to the pending Promise.race
    unit,         \* per org unit: the state of its processOrgUnit call
    returned,     \* what processConcurrentOrgUnits returned (outcomes), or <<>>
    m,            \* main.js: the locals of transferData and of the running downloadCSV
    dates,        \* streaming script: the startDate and endDate given to transferData
    staging,      \* file-staging script: the loop of transferDataForLevel and the disk
    copy          \* pass-through and JSON copy scripts: the loop of copyData and its submissions

vars == <<variant, batchSize, concurrency, pc, orgUnits, queue, active,
          results, completed, raceSet, unit, returned, m, dates,
                   staging, copy>>

streamVars == <<concurrency, queue, active, results, completed, raceSet,
                unit, returned,
                dates, staging, copy>>

UnitIds == 1..MaxOrgUnits
NoOutcome == [kind |-> "none"]

\* ------------------------------------------------------------ small helpers
RECURSIVE SumSeq(_)
SumSeq(s) == IF s = <<>> THEN 0 ELSE Head(s) + SumSeq(Tail(s))

RECURSIVE Flatten(_)
Flatten(ss) == IF ss = <<>> THEN <<>> ELSE Head(ss) \o Flatten(Tail(ss))

SeqMap(Op(_), s) == [i \in 1..Len(s) |-> Op(s[i])]
Range(s) == {s[i] : i \in 1..Len(s)}
Iota(n) == [i \in 1..n |-> i]
OrgUnitName(u) == u

\* ===================================================== streaming pipeline
\* The state of one processOrgUnit call before it is started.
IdleUnit ==
    [st          |-> "idle",   \* idle, fetching, piping, resolved, done, stuck
     consumed    |-> 0,        \* rows that have reached BatchProcessor._transform
     batch       |-> <<>>,     \* BatchProcessor.batch
     flushed     |-> FALSE,    \* the input ended and BatchProcessor._flush has run
     pushed      |-> <<>>,     \* batches BatchProcessor pushed downstream, in order
     taken       |-> 0,        \* batches DataUploader._transform was called with
     posting     |-> FALSE,    \* a POST of DataUploader is in flight
     posts       |-> <<>>,     \* POSTs issued: [batch, res], res pending/ok/fail
     recordCount |-> 0,        \* DataUploader.recordCount
     batchCount  |-> 0,        \* DataUploader.batchCount
     starts      |-> 0,        \* how many times processOrgUnit was called for it
     destroyed   |-> FALSE,    \* the finally block destroyed the streams
     outcome     |-> NoOutcome]

\* BatchProcessor constructor: options.batchSize || 100
BatchProcessorSize(opt) == IF opt = 0 THEN DefaultStreamBatchSize ELSE opt

\* the JavaScript value undefined, kept apart from every cell text
Undef == <<"undefined">>

\* the columns of the extraction endpoint's CSV, as its header spells them
CsvHeader == {"dataelement", "period", "orgunit", "categoryoptioncombo",
              "attributeoptioncombo", "value"}

\* the i-th row as csv() emits it: an object keyed by the header's names;
\* the value column tells the rows apart
CsvRow(i) ==
    [f \in CsvHeader |-> IF f = "value" THEN [j \in 1..i |-> "1"] ELSE <<f>>]

\* property read chunk.key: undefined when the object has no such key
JsGet(obj, key) == IF key \in DOMAIN obj THEN obj[key] ELSE Undef

\* the six fields PayloadTransformer writes
PayloadFields == {"dataElement", "period", "orgUnit", "value",
                  "categoryOptionCombo", "attributeOptionCombo"}

\* PayloadTransformer._transform: one parsed CSV row to one payload record
PayloadTransformer(chunk) ==
    [dataElement          |-> JsGet(chunk, "dataElement"),
     period               |-> JsGet(chunk, "period"),
     orgUnit              |-> JsGet(chunk, "orgUnit"),
     value                |-> JsGet(chunk, "value"),
     categoryOptionCombo  |-> JsGet(chunk, "categoryOptionCombo"),
     attributeOptionCombo |-> JsGet(chunk, "attributeOptionCombo")]

\* BatchProcessor._transform with > in place of >= (keeps one record too many)
BatchProcessorTransformLate(s, chunk) ==
    LET b == Append(s.batch, chunk) IN
    IF Len(b) > BatchProcessorSize(batchSize)
      THEN [s EXCEPT !.batch = <<>>, !.pushed = Append(@, b), !.consumed = @ + 1]
      ELSE [s EXCEPT !.batch = b, !.consumed = @ + 1]

\* BatchProcessor._transform(chunk): push the batch once it is full
BatchProcessorTransform(s, chunk) ==
    LET b == Append(s.batch, chunk) IN
    IF Len(b) >= BatchProcessorSize(batchSize)
      THEN [s EXCEPT !.batch = <<>>, !.pushed = Append(@, b), !.consumed = @ + 1]
      ELSE [s EXCEPT !.batch = b, !.consumed = @ + 1]

\* BatchProcessor._flush that pushes the trailing batch even when it is empty
BatchProcessorFlushAlways(s) ==
    [s EXCEPT !.pushed = Append(@, s.batch), !.flushed = TRUE]

\* BatchProcessor._flush(): push the trailing partial batch, if any
BatchProcessorFlush(s) ==
    IF Len(s.batch) > 0
      THEN [s EXCEPT !.pushed = Append(@, s.batch), !.flushed = TRUE]
      ELSE [s EXCEPT !.flushed = TRUE]

\* processOrgUnit, success return: {orgUnitId, orgUnitName, recordCount, batchCount}
SuccessOutcome(u, s) ==
    [kind |-> "ok", orgUnitId |-> u, orgUnitName |-> OrgUnitName(u),
     recordCount |-> s.recordCount, batchCount |-> s.batchCount]

\* processOrgUnit, catch block: {orgUnitId, orgUnitName, error}
ErrorOutcome(u, msg) ==
    [kind |-> "error", orgUnitId |-> u, orgUnitName |-> OrgUnitName(u),
     error |-> msg]

\* processOrgUnit, finally block: every registered stream is destroyed;
\* BatchProcessor._destroy empties its batch.
DestroyStreams(s) == [s EXCEPT !.batch = <<>>, !.destroyed = TRUE]

\* DataUploader._transform called for the next batch without waiting for the
\* callback of the batch before it
DataUploaderTransformEager(s) ==
    IF s.taken < Len(s.pushed)
      THEN [s EXCEPT !.taken = @ + 1,
                     !.posting = TRUE,
                     !.posts = Append(@, [batch |-> s.pushed[s.taken + 1],
                                          res |-> "pending"])]
      ELSE s

\* DataUploader._transform counting the batch before its POST has settled
DataUploaderTransformCountFirst(s) ==
    IF ~s.posting /\ s.taken < Len(s.pushed)
      THEN [s EXCEPT !.taken = @ + 1,
                     !.posting = TRUE,
                     !.recordCount = @ + Len(s.pushed[s.taken + 1]),
                     !.batchCount = @ + 1,
                     !.posts = Append(@, [batch |-> s.pushed[s.taken + 1],
                                          res |-> "pending"])]
      ELSE s

\* DataUploader._transform(batch), up to its await: when the uploader is idle
\* and a pushed batch is waiting, the POST of that batch is issued.  A
\* Transform handles one chunk at a time: the next call waits for callback().
DataUploaderTransform(s) ==
    IF ~s.posting /\ s.taken < Len(s.pushed)
      THEN [s EXCEPT !.taken = @ + 1,
                     !.posting = TRUE,
                     !.posts = Append(@, [batch |-> s.pushed[s.taken + 1],
                                          res |-> "pending"])]
      ELSE s

\* await pipeline(...) resolves once the input has been flushed and the
\* uploader has finished every batch written to it; processOrgUnit then
\* returns the success entry and its finally block destroys the streams.
PipelineSettle(u, s) ==
    IF s.flushed /\ ~s.posting /\ s.taken = Len(s.pushed)
      THEN DestroyStreams([s EXCEPT !.st = "resolved",
                                    !.outcome = SuccessOutcome(u, s)])
      ELSE s

\* The event loop takes the next I/O event only when the orchestrator
\* coroutine is suspended at an await and no promise reaction is pending
\* (a resolved processOrgUnit whose .then callback has not run, or a settled
\* Promise.race whose awaiter has not resumed).
MainSuspended == pc \in {"race", "all"}
EventLoopIdle ==
    /\ MainSuspended
    /\ \A v \in UnitIds : unit[v].st # "resolved"
    /\ ~(pc = "race" /\ \E v \in raceSet : unit[v].st = "done")

\* sourceStreamClient.get(url) resolves with the response stream; the streams
\* are built and pipeline(...) is awaited
FetchOk(u) ==
    /\ variant = "stream" /\ EventLoopIdle
    /\ unit[u].st = "fetching"
    /\ unit' = [unit EXCEPT ![u].st = "piping"]
    /\ UNCHANGED <<variant, batchSize, concurrency, pc, orgUnits, queue,
                   active, results, completed, raceSet, returned, m, dates,
                   staging, copy>>

\* sourceStreamClient.get(url) rejects: catch returns the error entry,
\* finally runs with streams = []
FetchFail(u) ==
    /\ variant = "stream" /\ EventLoopIdle
    /\ unit[u].st = "fetching"
    /\ unit' = [unit EXCEPT ![u].st = "resolved",
                            ![u].outcome = ErrorOutcome(u, "fetch")]
    /\ UNCHANGED <<variant, batchSize, concurrency, pc, orgUnits, queue,
                   active, results, completed, raceSet, returned, m, dates,
                   staging, copy>>

\* one row travels csv() -> PayloadTransformer -> BatchProcessor._transform;
\* a batch pushed to an idle uploader is posted at once
PipeRow(u) ==
    /\ variant = "stream" /\ EventLoopIdle
    /\ unit[u].st = "piping"
    /\ ~unit[u].flushed
    /\ unit[u].consumed < MaxRows
    /\ unit' = [unit EXCEPT ![u] =
                  DataUploaderTransform(
                    BatchProcessorTransform(@,
                      PayloadTransformer(CsvRow(unit[u].consumed + 1))))]
    /\ UNCHANGED <<variant, batchSize, concurrency, pc, orgUnits, queue,
                   active, results, completed, raceSet, returned, m, dates,
                   staging, copy>>

\* the response ends (after any number of rows) and the end of input
\* reaches BatchProcessor: _flush
PipeFlush(u) ==
    /\ variant = "stream" /\ EventLoopIdle
    /\ unit[u].st = "piping"
    /\ ~unit[u].flushed
    /\ unit' = [unit EXCEPT ![u] =
                  PipelineSettle(u, DataUploaderTransform(BatchProcessorFlush(@)))]
    /\ UNCHANGED <<variant, batchSize, concurrency, pc, orgUnits, queue,
                   active, results, completed, raceSet, returned, m, dates,
                   staging, copy>>

\* DataUploader._transform, after the POST resolved: count and callback()
UploadOk(u) ==
    /\ variant = "stream" /\ EventLoopIdle
    /\ unit[u].st = "piping"
    /\ unit[u].posting
    /\ unit' = [unit EXCEPT ![u] =
                  PipelineSettle(u, DataUploaderTransform(
                    [@ EXCEPT !.posting = FALSE,
                              !.posts[Len(unit[u].posts)].res = "ok",
                              !.recordCount = @ + Len(unit[u].posts[Len(unit[u].posts)].batch),
                              !.batchCount = @ + 1]))]
    /\ UNCHANGED <<variant, batchSize, concurrency, pc, orgUnits, queue,
                   active, results, completed, raceSet, returned, m, dates,
                   staging, copy>>

\* DataUploader._transform, after the POST rejected: callback(error).
\* The stream machinery destroys the uploader with the error; the error and
\* close events are emitted from the completion callback handed to _destroy.
\* DataUploader._destroy() takes no arguments, never calls that callback and
\* removes every listener, so whether pipeline() learns of the error depends
\* on the runtime: it either rejects (catch returns the error entry, finally
\* destroys the streams) or never settles.  Either way no later batch of the
\* unit is posted.
UploadFail(u) ==
    /\ variant = "stream" /\ EventLoopIdle
    /\ unit[u].st = "piping"
    /\ unit[u].posting
    /\ \/ unit' = [unit EXCEPT ![u] =
                     DestroyStreams(
                       [@ EXCEPT !.posting = FALSE,
                                 !.posts[Len(unit[u].posts)].res = "fail",
                                 !.st = "resolved",
                                 !.outcome = ErrorOutcome(u, "submit")])]
       \/ unit' = [unit EXCEPT ![u].posting = FALSE,
                               ![u].posts[Len(unit[u].posts)].res = "fail",
                               ![u].st = "stuck"]
    /\ UNCHANGED <<variant, batchSize, concurrency, pc, orgUnits, queue,
                   active, results, completed, raceSet, returned, m, dates,
                   staging, copy>>

\* the source response stream fails while being read or parsed: pipeline()
\* rejects, catch returns the error entry, finally destroys the streams
PipeError(u) ==
    /\ variant = "stream" /\ EventLoopIdle
    /\ unit[u].st = "piping"
    /\ ~unit[u].flushed
    /\ unit' = [unit EXCEPT ![u] =
                  DestroyStreams([@ EXCEPT !.st = "resolved",
                                           !.posting = FALSE,
                                           !.outcome = ErrorOutcome(u, "parse")])]
    /\ UNCHANGED <<variant, batchSize, concurrency, pc, orgUnits, queue,
                   active, results, completed, raceSet, returned, m, dates,
                   staging, copy>>

\* ====================================================== date validation
\* A date string is a sequence of one-character strings.
DigitChars == <<"0", "1", "2", "3", "4", "5", "6", "7", "8", "9">>
IsDigit(c) == \E i \in 1..Len(DigitChars) : DigitChars[i] = c
DigitValue(c) == (CHOOSE i \in 1..Len(DigitChars) : DigitChars[i] = c) - 1

\* /^\d{4}-\d{2}-\d{2}$/.test(dateString)
DateRegexTest(ds) ==
    /\ Len(ds) = 10
    /\ \A i \in {1, 2, 3, 4, 6, 7, 9, 10} : IsDigit(ds[i])
    /\ ds[5] = "-" /\ ds[8] = "-"

\* the numeric fields of a string that matched the pattern
YearOf(ds) == 1000 * DigitValue(ds[1]) + 100 * DigitValue(ds[2])
                + 10 * DigitValue(ds[3]) + DigitValue(ds[4])
MonthOf(ds) == 10 * DigitValue(ds[6]) + DigitValue(ds[7])
DayOf(ds) == 10 * DigitValue(ds[9]) + DigitValue(ds[10])

IsLeapYear(y) == y % 4 = 0 /\ (y % 100 # 0 \/ y % 400 = 0)
DaysInMonth(y, mo) ==
    IF mo = 2 THEN (IF IsLeapYear(y) THEN 29 ELSE 28)
    ELSE IF mo \in {4, 6, 9, 11} THEN 30 ELSE 31
DaysBeforeYear(y) == 365 * y + (y + 3) \div 4 - (y + 99) \div 100 + (y + 399) \div 400
RECURSIVE DaysBeforeMonth(_, _)
DaysBeforeMonth(y, mo) ==
    IF mo <= 1 THEN 0 ELSE DaysBeforeMonth(y, mo - 1) + DaysInMonth(y, mo - 1)

\* new Date(dateString) for a string that matched the pattern, as the Node
\* runtime parses it: a month outside 1..12 or a day outside 1..31 gives an
\* invalid date (NaN); a day beyond the month's length rolls over into the
\* next month.  The time value is counted in days.
NewDate(ds) ==
    IF MonthOf(ds) \in 1..12 /\ DayOf(ds) \in 1..31
      THEN [nan |-> FALSE,
            time |-> DaysBeforeYear(YearOf(ds))
                       + DaysBeforeMonth(YearOf(ds), MonthOf(ds)) + DayOf(ds)]
      ELSE [nan |-> TRUE, time |-> 0]

\* isValidDate(dateString)
isValidDate(ds) == DateRegexTest(ds) /\ ~NewDate(ds).nan

\* transferData, validation block: both dates valid and not start > end
DatesAccepted(d) ==
    /\ isValidDate(d.startDate)
    /\ isValidDate(d.endDate)
    /\ ~(NewDate(d.startDate).time > NewDate(d.endDate).time)

\* the dates of the script's own config object
ConfigStartDate == <<"2", "0", "2", "4", "-", "0", "1", "-", "0", "1">>
ConfigEndDate == <<"2", "0", "2", "4", "-", "1", "0", "-", "3", "1">>
ConfigDates == [startDate |-> ConfigStartDate, endDate |-> ConfigEndDate]

\* other date strings a caller may pass
MonthThirteen == <<"2", "0", "2", "4", "-", "1", "3", "-", "0", "1">>
FebThirtieth == <<"2", "0", "2", "4", "-", "0", "2", "-", "3", "0">>
SlashDate == <<"0", "1", "/", "0", "1", "/", "2", "0", "2", "4">>
ShortDate == <<"2", "0", "2", "4", "-", "1", "-", "1">>
DateInputs ==
    {ConfigDates,
     [startDate |-> ConfigEndDate, endDate |-> ConfigStartDate],
     [startDate |-> MonthThirteen, endDate |-> ConfigEndDate],
     [startDate |-> ConfigStartDate, endDate |-> MonthThirteen],
     [startDate |-> SlashDate, endDate |-> ConfigEndDate],
     [startDate |-> ConfigStartDate, endDate |-> ShortDate],
     [startDate |-> FebThirtieth, endDate |-> ConfigEndDate]}

\* transferData: validation passed, getOrgUnitsMultiLevel is called and awaited
ValidateOk ==
    /\ variant = "stream" /\ pc = "validate"
    /\ DatesAccepted(dates)
    /\ pc' = "catalog"
    /\ UNCHANGED <<variant, batchSize, concurrency, orgUnits, queue, active,
                   results, completed, raceSet, unit, returned, m, dates,
                   staging, copy>>

\* transferData: validation throws; the catch logs and rethrows
ValidateFail ==
    /\ variant = "stream" /\ pc = "validate"
    /\ ~DatesAccepted(dates)
    /\ pc' = "rejected"
    /\ UNCHANGED <<variant, batchSize, concurrency, orgUnits, queue, active,
                   results, completed, raceSet, unit, returned, m, dates,
                   staging, copy>>

\* ============================================ processConcurrentOrgUnits
\* admission test with <= in place of < (admits one unit too many)
AdmitOffByOne(q, a, c) == Len(q) > 0 /\ Cardinality(a) <= c

\* admission test with the concurrency raised to at least one
AdmitAtLeastOne(q, a, c) ==
    Len(q) > 0 /\ Cardinality(a) < (IF c < 1 THEN 1 ELSE c)

\* inner while condition: queue.length > 0 && active.size < concurrency
Admit(q, a, c) == Len(q) > 0 /\ Cardinality(a) < c

\* outer while condition without its queue term
LoopGoesOnActiveOnly(q, a) == Cardinality(a) > 0

\* outer while condition: queue.length > 0 || active.size > 0
LoopGoesOn(q, a) == Len(q) > 0 \/ Cardinality(a) > 0

\* getOrgUnitsMultiLevel resolves with n org units; processConcurrentOrgUnits
\* is entered: results = [], queue = [...orgUnits], active = {}, completed = 0
GetOrgUnitsOk ==
    /\ variant = "stream" /\ pc = "catalog"
    /\ \E n \in 0..MaxOrgUnits :
         /\ orgUnits' = n
         /\ queue' = Iota(n)
    /\ pc' = "loop"
    /\ UNCHANGED <<variant, batchSize, concurrency, active, results,
                   completed, raceSet, unit, returned, m, dates,
                   staging, copy>>

\* getOrgUnitsMultiLevel rejects: transferData rethrows
GetOrgUnitsFail ==
    /\ variant = "stream" /\ pc = "catalog"
    /\ pc' = "failed"
    /\ UNCHANGED <<variant, batchSize, concurrency, orgUnits, queue, active,
                   results, completed, raceSet, unit, returned, m, dates,
                   staging, copy>>

\* the inner while body taking the last queued unit (queue.pop()) instead
StartUnitLast ==
    /\ variant = "stream" /\ pc = "loop"
    /\ LoopGoesOn(queue, active)
    /\ Admit(queue, active, concurrency)
    /\ LET u == queue[Len(queue)] IN
         /\ queue' = SubSeq(queue, 1, Len(queue) - 1)
         /\ unit' = [unit EXCEPT ![u].st = "fetching", ![u].starts = @ + 1]
         /\ active' = active \cup {u}
         /\ results' = Append(results, u)
    /\ UNCHANGED <<variant, batchSize, concurrency, pc, orgUnits, completed,
                   raceSet, returned, m, dates,
                   staging, copy>>

\* inner while body: queue.shift(), call processOrgUnit (which runs up to its
\* first await, the source GET), active.add(promise), results.push(promise)
StartUnit ==
    /\ variant = "stream" /\ pc = "loop"
    /\ LoopGoesOn(queue, active)
    /\ Admit(queue, active, concurrency)
    /\ LET u == Head(queue) IN
         /\ queue' = Tail(queue)
         /\ unit' = [unit EXCEPT ![u].st = "fetching", ![u].starts = @ + 1]
         /\ active' = active \cup {u}
         /\ results' = Append(results, u)
    /\ UNCHANGED <<variant, batchSize, concurrency, pc, orgUnits, completed,
                   raceSet, returned, m, dates,
                   staging, copy>>

\* if (active.size >= concurrency || queue.length === 0) await Promise.race(active)
AwaitRace ==
    /\ variant = "stream" /\ pc = "loop"
    /\ LoopGoesOn(queue, active)
    /\ ~Admit(queue, active, concurrency)
    /\ (Cardinality(active) >= concurrency \/ Len(queue) = 0)
    /\ pc' = "race"
    /\ raceSet' = active
    /\ UNCHANGED <<variant, batchSize, concurrency, orgUnits, queue, active,
                   results, completed, unit, returned, m, dates,
                   staging, copy>>

\* the completion callback without its completed++
ThenCallbackNoCount(u) ==
    /\ variant = "stream" /\ MainSuspended
    /\ unit[u].st = "resolved"
    /\ active' = active \ {u}
    /\ unit' = [unit EXCEPT ![u] = [IdleUnit EXCEPT !.st = "done",
                                                    !.starts = unit[u].starts,
                                                    !.destroyed = unit[u].destroyed,
                                                    !.outcome = unit[u].outcome]]
    /\ UNCHANGED <<variant, batchSize, concurrency, pc, orgUnits, queue,
                   results, completed, raceSet, returned, m, dates,
                   staging, copy>>

\* .then((result) => { active.delete(promise); completed++; ... return result })
\* The call's streams are unreachable from here on: only its outcome is kept.
ThenCallback(u) ==
    /\ variant = "stream" /\ MainSuspended
    /\ unit[u].st = "resolved"
    /\ active' = active \ {u}
    /\ completed' = completed + 1
    /\ unit' = [unit EXCEPT ![u] = [IdleUnit EXCEPT !.st = "done",
                                                    !.starts = unit[u].starts,
                                                    !.destroyed = unit[u].destroyed,
                                                    !.outcome = unit[u].outcome]]
    /\ UNCHANGED <<variant, batchSize, concurrency, pc, orgUnits, queue,
                   results, raceSet, returned, m, dates,
                   staging, copy>>

\* Promise.race(active) settles once one of the promises it was given has
\* settled; the orchestrator resumes at the top of the outer while
RaceResumes ==
    /\ variant = "stream" /\ pc = "race"
    /\ \E u \in raceSet : unit[u].st = "done"
    /\ pc' = "loop"
    /\ raceSet' = {}
    /\ UNCHANGED <<variant, batchSize, concurrency, orgUnits, queue, active,
                   results, completed, unit, returned, m, dates,
                   staging, copy>>

\* the outer while ends: return await Promise.all(results)
AwaitAll ==
    /\ variant = "stream" /\ pc = "loop"
    /\ ~LoopGoesOn(queue, active)
    /\ pc' = "all"
    /\ UNCHANGED <<variant, batchSize, concurrency, orgUnits, queue, active,
                   results, completed, raceSet, unit, returned, m, dates,
                   staging, copy>>

\* Promise.all(results) resolves with the outcomes in the order of results
ReturnResults ==
    /\ variant = "stream" /\ pc = "all"
    /\ \A i \in 1..Len(results) : unit[results[i]].st = "done"
    /\ returned' = [i \in 1..Len(results) |-> unit[results[i]].outcome]
    /\ pc' = "returned"
    /\ UNCHANGED <<variant, batchSize, concurrency, orgUnits, queue, active,
                   results, completed, raceSet, unit, m, dates,
                   staging, copy>>

\* transferData, summary: successful = results.filter((r) => !r.error),
\* totalRecords = successful.reduce((sum, r) => sum + r.recordCount, 0)
RECURSIVE TotalRecords(_)
TotalRecords(res) ==
    IF Len(res) = 0 THEN 0
    ELSE (IF "error" \in DOMAIN Head(res) THEN 0 ELSE Head(res).recordCount)
           + TotalRecords(Tail(res))

\* process.on("SIGINT") and process.on("SIGTERM"): log and process.exit(0).
\* The process ends at once; what is left of a processOrgUnit call is how
\* far it had got, its outcome if any and whether its streams were destroyed.
Signal ==
    /\ variant = "stream"
    /\ pc \in {"validate", "catalog", "loop", "race", "all"}
    /\ pc' = "interrupted"
    /\ unit' = [u \in UnitIds |->
                  [IdleUnit EXCEPT !.st = unit[u].st,
                                   !.starts = unit[u].starts,
                                   !.destroyed = unit[u].destroyed,
                                   !.outcome = unit[u].outcome]]
    /\ UNCHANGED <<variant, batchSize, concurrency, orgUnits, queue, active,
                   results, completed, raceSet, returned, m, dates,
                   staging, copy>>

\* =========================================================== main.js
\* CSV text is modelled as a sequence of one-character strings, so that
\* trimming is computed and not assumed.
CellA == <<"a">>
CellB == <<"b">>
Cells == {Undef, <<>>, <<" ">>, CellA, <<" ", "a", " ">>}

RECURSIVE TrimLeft(_)
TrimLeft(t) == IF t # <<>> /\ Head(t) = " " THEN TrimLeft(Tail(t)) ELSE t
RECURSIVE TrimRight(_)
TrimRight(t) ==
    IF t # <<>> /\ t[Len(t)] = " " THEN TrimRight(SubSeq(t, 1, Len(t) - 1)) ELSE t
\* String.prototype.trim
Trim(t) == TrimRight(TrimLeft(t))

RawFields == {"dataelement", "period", "orgunit", "value",
              "categoryoptioncombo", "attributeoptioncombo"}
CanonFields == {"dataElement", "period", "orgUnit", "value",
                "categoryOptionCombo", "attributeOptionCombo"}

\* The rows the extraction endpoint may return: a complete row, and rows in
\* which one column is absent, empty, blank or padded; for the first class
\* also a complete row of a data element outside the requested datasets.
GoodRow == [f \in RawFields |-> CellA]
InputRows ==
    {[GoodRow EXCEPT ![f] = c] : f \in RawFields, c \in Cells}
      \cup {[GoodRow EXCEPT !["dataelement"] = CellB]}

\* Papa.parse, transform: (value) => value.trim(), applied to every cell present
PapaTransform(raw) ==
    [f \in RawFields |-> IF raw[f] = Undef THEN Undef ELSE Trim(raw[f])]

\* Boolean(x?.trim()) of a cell
Truthy(c) == c # Undef /\ Trim(c) # <<>>

\* isValidDataValue that does not look at the value column
isValidDataValueNoValue(data) ==
    \A f \in RawFields \ {"value"} : Truthy(data[f])

\* isValidDataValue(data): every one of the six fields is non-blank
isValidDataValue(data) == \A f \in RawFields : Truthy(data[f])

\* normalizeDataValue(data); line is the row's position in the response.
\* The optional columns (storedby, lastupdated, comment, followup) are
\* copied through unchanged and are left out.
normalizeDataValue(data, line) ==
    [line |-> line,
     dataElement |-> data["dataelement"],
     period |-> data["period"],
     orgUnit |-> data["orgunit"],
     categoryOptionCombo |-> data["categoryoptioncombo"],
     attributeOptionCombo |-> data["attributeoptioncombo"],
     value |-> IF data["value"] = Undef THEN Undef ELSE Trim(data["value"])]

\* Papa.parse step callback: keep the row when it is valid
ParseStep(dataValues, raw, line) ==
    LET data == PapaTransform(raw) IN
    IF isValidDataValue(data)
      THEN Append(dataValues, normalizeDataValue(data, line))
      ELSE dataValues

\* lodash chunk(array, size), size >= 1
RECURSIVE chunk(_, _)
chunk(array, size) ==
    IF array = <<>> THEN <<>>
    ELSE IF Len(array) <= size THEN <<array>>
    ELSE <<SubSeq(array, 1, size)>> \o chunk(SubSeq(array, size + 1, Len(array)), size)

SelectSeqBy(s, Test(_)) == SelectSeq(s, Test)

ZeroCounts == [imported |-> 0, updated |-> 0, ignored |-> 0, deleted |-> 0]
AddCounts(x, y) ==
    [imported |-> x.imported + y.imported, updated |-> x.updated + y.updated,
     ignored |-> x.ignored + y.ignored, deleted |-> x.deleted + y.deleted]

\* Import reports of the destination: {importCount, conflicts}; the
\* conflicts field may be absent.
ImportReports ==
    {[importCount |-> [imported |-> 1, updated |-> 0, ignored |-> 0, deleted |-> 0],
      hasConflicts |-> FALSE, conflicts |-> <<>>],
     [importCount |-> [imported |-> 0, updated |-> 0, ignored |-> 1, deleted |-> 0],
      hasConflicts |-> TRUE, conflicts |-> <<"c1">>]}

\* How a POST to /api/dataValueSets may settle:
\*   ok          2xx, body.response carries an import report
\*   okNoCount   2xx, body.response carries no importCount
\*   httpReport  HTTP error whose body carries an import report
\*   noResponse  the request failed without any response (network error)
PostOutcomes ==
    [kind : {"ok", "httpReport"}, report : ImportReports]
      \cup {[kind |-> "okNoCount"], [kind |-> "noResponse"]}

\* the import count the destination's answer carries, if any
ReportedCounts(o) ==
    IF o.kind \in {"ok", "httpReport"} THEN o.report.importCount ELSE ZeroCounts

\* The locals of transferData and of the running downloadCSV.
IdleMain ==
    [idx        |-> 0,           \* index of the org unit being processed (1-based)
     orgsDefined |-> TRUE,       \* first class: getOrganisations returned a list
     elements   |-> {},          \* first class: dataElements
     elementsFailed |-> FALSE,   \* first class: the dataSets request failed
     row        |-> GoodRow,     \* the row last handed to the step callback
     parsed     |-> 0,           \* rows handed to the step callback so far
     dataValues |-> <<>>,        \* downloadCSV: dataValues
     batches    |-> <<>>,        \* downloadCSV: batches
     bi         |-> 0,           \* index of the batch being submitted
     posts      |-> <<>>,        \* this unit's submissions: [batch, kind]
     uTot       |-> ZeroCounts,  \* second class: totalImported .. totalUpdated of the unit
     conflicts  |-> <<>>,        \* second class: conflicts of the unit
     outcomes   |-> <<>>,        \* what downloadCSV resolved with, per finished unit
     totals     |-> ZeroCounts,  \* transferData: totalImported .. totalDeleted
     errors     |-> <<>>,        \* transferData: errors
     fetched    |-> 0,           \* source downloads issued
     failed     |-> {},          \* org units whose source download failed
     reported   |-> ZeroCounts,  \* sum of the import counts the destination returned
     result     |-> [kind |-> "none"]]

\* the locals of a fresh downloadCSV call
FreshUnit(mm) ==
    [mm EXCEPT !.row = GoodRow, !.parsed = 0, !.dataValues = <<>>,
               !.batches = <<>>, !.bi = 0, !.posts = <<>>,
               !.uTot = ZeroCounts, !.conflicts = <<>>]

\* transferData, return statement (errors: errors.length ? errors : undefined)
Summary(mm, n) ==
    [kind |-> "summary",
     totalImported |-> mm.totals.imported, totalUpdated |-> mm.totals.updated,
     totalIgnored |-> mm.totals.ignored, totalDeleted |-> mm.totals.deleted,
     totalOrgUnits |-> n,
     errors |-> mm.errors]

\* for (const [index, orgUnit] of orgUnits.entries()): the next iteration
\* calls downloadCSV, which issues the source GET; after the last one
\* transferData returns the summary.
NextOrgUnit(mm) ==
    IF mm.idx < orgUnits
      THEN /\ m' = [FreshUnit(mm) EXCEPT !.idx = @ + 1, !.fetched = @ + 1]
           /\ pc' = "fetch"
      ELSE /\ m' = [FreshUnit(mm) EXCEPT !.result = Summary(mm, orgUnits)]
           /\ pc' = "returned"

\* ------------------------------------------- second class (lines 368-628)
\* processDataValuesBatch whose catch block returns an empty report instead
\* of the one in the error body
processDataValuesBatch2Discard(o) ==
    IF o.kind = "ok"
      THEN [threw |-> FALSE, hasImportCount |-> TRUE,
            importCount |-> o.report.importCount,
            hasConflicts |-> o.report.hasConflicts,
            conflicts |-> o.report.conflicts]
    ELSE IF o.kind \in {"okNoCount"}
      THEN [threw |-> FALSE, hasImportCount |-> FALSE, importCount |-> ZeroCounts,
            hasConflicts |-> FALSE, conflicts |-> <<>>]
    ELSE IF o.kind = "httpReport"
      THEN [threw |-> FALSE, hasImportCount |-> TRUE, importCount |-> ZeroCounts,
            hasConflicts |-> TRUE, conflicts |-> <<>>]
    ELSE [threw |-> TRUE, hasImportCount |-> FALSE, importCount |-> ZeroCounts,
          hasConflicts |-> FALSE, conflicts |-> <<>>]

\* processDataValuesBatch: what the call returns, or that it throws.
\*   try:   const { importCount, conflicts } = data.response
\*   catch: const { importCount, conflicts } = error.response.data.response
\* A failure without a response makes the catch block itself throw.
processDataValuesBatch2(o) ==
    IF o.kind \in {"ok", "httpReport"}
      THEN [threw |-> FALSE, hasImportCount |-> TRUE,
            importCount |-> o.report.importCount,
            hasConflicts |-> o.report.hasConflicts,
            conflicts |-> o.report.conflicts]
    ELSE IF o.kind = "okNoCount"
      THEN [threw |-> FALSE, hasImportCount |-> FALSE, importCount |-> ZeroCounts,
            hasConflicts |-> FALSE, conflicts |-> <<>>]
    ELSE [threw |-> TRUE, hasImportCount |-> FALSE, importCount |-> ZeroCounts,
          hasConflicts |-> FALSE, conflicts |-> <<>>]

\* conflicts.concat(result.conflicts): concat(undefined) appends undefined
ConcatConflicts(list, r) ==
    IF r.hasConflicts THEN list \o r.conflicts ELSE Append(list, "undefined")

\* transferData assigning the unit's counts to the totals instead of adding
M2ResolveAssign(mm) ==
    [mm EXCEPT !.totals = mm.uTot,
               !.outcomes = Append(@, [orgUnit |-> mm.idx,
                                       imported |-> mm.uTot.imported,
                                       ignored |-> mm.uTot.ignored,
                                       deleted |-> mm.uTot.deleted,
                                       updated |-> mm.uTot.updated,
                                       conflicts |-> mm.conflicts])]

\* downloadCSV resolved: transferData adds the unit's counts to the totals
M2Resolve(mm) ==
    [mm EXCEPT !.totals = AddCounts(@, mm.uTot),
               !.outcomes = Append(@, [orgUnit |-> mm.idx,
                                       imported |-> mm.uTot.imported,
                                       ignored |-> mm.uTot.ignored,
                                       deleted |-> mm.uTot.deleted,
                                       updated |-> mm.uTot.updated,
                                       conflicts |-> mm.conflicts])]

\* getOrganisations resolves with n org units; the loop starts
M2OrgsOk ==
    /\ variant = "main2" /\ pc = "orgs"
    /\ \E n \in 0..MaxOrgUnits :
         /\ orgUnits' = n
         /\ IF n > 0
              THEN /\ m' = [m EXCEPT !.idx = 1, !.fetched = @ + 1]
                   /\ pc' = "fetch"
              ELSE /\ m' = [m EXCEPT !.result = Summary(m, 0)]
                   /\ pc' = "returned"
    /\ UNCHANGED <<variant, batchSize, streamVars>>

\* getOrganisations throws: transferData throws "Transfer failed: ..."
M2OrgsFail ==
    /\ variant = "main2" /\ pc = "orgs"
    /\ pc' = "thrown"
    /\ m' = [m EXCEPT !.result = [kind |-> "thrown"]]
    /\ UNCHANGED <<variant, batchSize, orgUnits, streamVars>>

\* sourceApi.get resolves with the CSV text; Papa.parse starts
M2FetchOk ==
    /\ variant = "main2" /\ pc = "fetch"
    /\ pc' = "parse"
    /\ UNCHANGED <<variant, batchSize, orgUnits, streamVars, m>>

\* sourceApi.get rejects: downloadCSV throws, transferData records the unit
\* in errors and goes on with the next org unit
M2FetchFail ==
    /\ variant = "main2" /\ pc = "fetch"
    /\ NextOrgUnit([m EXCEPT !.errors = Append(@, [orgUnit |-> OrgUnitName(m.idx),
                                                   error |-> "download"]),
                             !.failed = @ \cup {m.idx}])
    /\ UNCHANGED <<variant, batchSize, orgUnits, streamVars>>

\* Papa.parse hands one more row to the step callback
M2Step ==
    /\ variant = "main2" /\ pc = "parse"
    /\ m.parsed < MaxRows
    /\ \E raw \in InputRows :
         m' = [m EXCEPT !.row = raw, !.parsed = @ + 1,
                        !.dataValues = ParseStep(@, raw, m.parsed + 1)]
    /\ UNCHANGED <<variant, batchSize, pc, orgUnits, streamVars>>

\* Papa.parse complete callback, up to its first await: chunk the rows and
\* submit the first batch; with no batch the promise resolves at once
M2Complete ==
    /\ variant = "main2" /\ pc = "parse"
    /\ LET batches == chunk(m.dataValues, batchSize) IN
         IF batches = <<>>
           THEN NextOrgUnit(M2Resolve(m))
           ELSE /\ m' = [m EXCEPT !.row = GoodRow, !.batches = batches, !.bi = 1,
                                  !.posts = <<[batch |-> batches[1], kind |-> "pending"]>>]
                /\ pc' = "post"
    /\ UNCHANGED <<variant, batchSize, orgUnits, streamVars>>

\* the POST of the current batch settles: processDataValuesBatch returns or
\* throws, the loop body adds the counts (result.importCount.imported ...),
\* and the next batch is submitted or the promise resolves.  When
\* processDataValuesBatch throws, or returns without importCount, the async
\* complete callback rejects: nothing handles that rejection and neither
\* resolve nor reject of the downloadCSV promise is ever called.
M2PostSettles ==
    /\ variant = "main2" /\ pc = "post"
    /\ \E o \in PostOutcomes :
         LET r == processDataValuesBatch2(o)
             logged == [m EXCEPT !.posts[m.bi] = [batch |-> @.batch, kind |-> o.kind,
                                                 out |-> o],
                                 !.reported = AddCounts(@, ReportedCounts(o))]
         IN
         IF r.threw \/ ~r.hasImportCount
           THEN /\ m' = logged
                /\ pc' \in {"stuck", "crashed"}
           ELSE LET acc == [logged EXCEPT !.uTot = AddCounts(@, r.importCount),
                                          !.conflicts = ConcatConflicts(@, r)]
                IN IF m.bi < Len(m.batches)
                     THEN /\ m' = [acc EXCEPT !.bi = @ + 1,
                                              !.posts = Append(@, [batch |-> m.batches[m.bi + 1],
                                                                   kind |-> "pending"])]
                          /\ pc' = "post"
                     ELSE NextOrgUnit(M2Resolve(acc))
    /\ UNCHANGED <<variant, batchSize, orgUnits, streamVars>>

\* -------------------------------------------- first class (lines 19-314)
\* The permitted element sets fetchDataElements may resolve with.
DataElementSets == {{CellA}, {CellA, CellB}}

\* downloadCSV, complete, without the element filter
FilterByElementsNone(dataValues, dataElements) == dataValues

\* downloadCSV, complete: dataValues.filter((dv) => dataElements.includes(dv.dataElement))
FilterByElements(dataValues, dataElements) ==
    SelectSeq(dataValues, LAMBDA dv : dv.dataElement \in dataElements)

\* getOrganisations settles.  fetchOrgUnits catches a failed request, logs
\* it and returns undefined; transferData goes on to fetchDataElements.
M1OrgsSettle ==
    /\ variant = "main1" /\ pc = "orgs"
    /\ \/ \E n \in 0..MaxOrgUnits :
            /\ orgUnits' = n
            /\ m' = [m EXCEPT !.orgsDefined = TRUE]
       \/ /\ orgUnits' = 0
          /\ m' = [m EXCEPT !.orgsDefined = FALSE]
    /\ pc' = "elements"
    /\ UNCHANGED <<variant, batchSize, streamVars>>

\* fetchDataElements resolves with the permitted elements; the loop starts.
\* With orgUnits undefined, orgUnits.entries() throws: the outer catch logs
\* "Transfer failed" and transferData resolves with undefined.
M1ElementsOk ==
    /\ variant = "main1" /\ pc = "elements"
    /\ \E des \in DataElementSets :
         IF ~m.orgsDefined
           THEN /\ m' = [m EXCEPT !.elements = des, !.result = [kind |-> "undefined"]]
                /\ pc' = "returned"
           ELSE IF orgUnits > 0
             THEN /\ m' = [m EXCEPT !.elements = des, !.idx = 1, !.fetched = @ + 1]
                  /\ pc' = "fetch"
             ELSE /\ m' = [m EXCEPT !.elements = des,
                                    !.result = Summary(m, 0)]
                  /\ pc' = "returned"
    /\ UNCHANGED <<variant, batchSize, orgUnits, streamVars>>

\* the dataSets request fails and fetchDataElements, like fetchOrgUnits,
\* only logs: transferData would go on with dataElements undefined
M1ElementsFailLogged ==
    /\ variant = "main1" /\ pc = "elements"
    /\ m.orgsDefined /\ orgUnits > 0
    /\ m' = [m EXCEPT !.elementsFailed = TRUE, !.idx = 1, !.fetched = @ + 1]
    /\ pc' = "fetch"
    /\ UNCHANGED <<variant, batchSize, orgUnits, streamVars>>

\* the dataSets request fails: the catch block of fetchDataElements reads the
\* undeclared name level, so the call throws (ReferenceError); the outer
\* catch of transferData logs it and transferData resolves with undefined.
M1ElementsFail ==
    /\ variant = "main1" /\ pc = "elements"
    /\ m' = [m EXCEPT !.elementsFailed = TRUE, !.result = [kind |-> "undefined"]]
    /\ pc' = "returned"
    /\ UNCHANGED <<variant, batchSize, orgUnits, streamVars>>

\* sourceApi.get resolves with the CSV text; Papa.parse starts
M1FetchOk ==
    /\ variant = "main1" /\ pc = "fetch"
    /\ pc' = "parse"
    /\ UNCHANGED <<variant, batchSize, orgUnits, streamVars, m>>

\* sourceApi.get rejects: the catch block of downloadCSV logs the failure and
\* downloadCSV resolves with undefined; transferData sees no error and goes
\* on with the next org unit
M1FetchFail ==
    /\ variant = "main1" /\ pc = "fetch"
    /\ NextOrgUnit([m EXCEPT !.failed = @ \cup {m.idx}])
    /\ UNCHANGED <<variant, batchSize, orgUnits, streamVars>>

\* Papa.parse hands one more row to the step callback
M1Step ==
    /\ variant = "main1" /\ pc = "parse"
    /\ m.parsed < MaxRows
    /\ \E raw \in InputRows :
         m' = [m EXCEPT !.row = raw, !.parsed = @ + 1,
                        !.dataValues = ParseStep(@, raw, m.parsed + 1)]
    /\ UNCHANGED <<variant, batchSize, pc, orgUnits, streamVars>>

\* downloadCSV resolved with {processed: true}
M1Resolve(mm) ==
    [mm EXCEPT !.outcomes = Append(@, [orgUnit |-> mm.idx, processed |-> TRUE])]

\* Papa.parse complete callback, up to its first await: filter by the
\* permitted elements, chunk, submit the first batch; with no batch the
\* promise resolves at once
M1Complete ==
    /\ variant = "main1" /\ pc = "parse"
    /\ LET batches == chunk(FilterByElements(m.dataValues, m.elements), batchSize) IN
         IF batches = <<>>
           THEN NextOrgUnit(M1Resolve(m))
           ELSE /\ m' = [m EXCEPT !.row = GoodRow, !.batches = batches, !.bi = 1,
                                  !.posts = <<[batch |-> batches[1], kind |-> "pending"]>>]
                /\ pc' = "post"
    /\ UNCHANGED <<variant, batchSize, orgUnits, streamVars>>

\* the POST of the current batch settles.  processDataValuesBatch logs the
\* import count or the report of a failure, swallows every error and returns
\* nothing; the next batch is submitted or the promise resolves.
M1PostSettles ==
    /\ variant = "main1" /\ pc = "post"
    /\ \E o \in PostOutcomes :
         LET logged == [m EXCEPT !.posts[m.bi] = [batch |-> @.batch, kind |-> o.kind,
                                                 out |-> o],
                                 !.reported = AddCounts(@, ReportedCounts(o))] IN
         IF m.bi < Len(m.batches)
           THEN /\ m' = [logged EXCEPT !.bi = @ + 1,
                                       !.posts = Append(@, [batch |-> m.batches[m.bi + 1],
                                                            kind |-> "pending"])]
                /\ pc' = "post"
           ELSE NextOrgUnit(M1Resolve(logged))
    /\ UNCHANGED <<variant, batchSize, orgUnits, streamVars>>

\* ============================================================ process end
\* The run is over: transferData has settled (or can never settle) and main,
\* or the script's top level, has handled its result.
ProcessEnded == pc \in {"rejected", "failed", "returned", "thrown", "crashed"}

\* The exit code of the process.  main of the second class calls
\* process.exit(1) in its catch block, and a rejection nothing handles ends
\* the process with code 1; the streaming script attaches
\* .catch(console.error) to transferData, so it ends with code 0 whatever
\* transferData did.
ExitCode ==
    IF variant = "main2" /\ pc \in {"thrown", "crashed"} THEN 1 ELSE 0

\* ================================================================== runs
\* ==================================================== file-staging script
\* what the file-staging and pass-through scripts never touch
bigVars == <<batchSize, concurrency, queue, active, results, completed,
             raceSet, unit, returned, m, dates>>

\* transferDataForLevel before it is called; a staging file is named after
\* its org unit, so the disk is the set of org units whose file exists.
IdleStaging ==
    [idx      |-> 0,     \* the org unit transferDataForOrgUnit was called for
     files    |-> {},    \* staging files that exist on disk
     created  |-> {},    \* org units whose staging file was ever created
     uploaded |-> {},    \* org units whose file content the destination accepted
     finished |-> {}]    \* org units whose transferDataForOrgUnit call has returned

\* for (const orgUnit of orgUnits) await transferDataForOrgUnit(...): the call
\* runs downloadCsvFromSource up to its await; fs.createWriteStream creates
\* the staging file and the source GET is issued.
StagingNextUnit(st, n) ==
    IF st.idx < n
      THEN /\ staging' = [st EXCEPT !.idx = @ + 1,
                                     !.files = @ \cup {st.idx + 1},
                                     !.created = @ \cup {st.idx + 1}]
           /\ pc' = "download"
      ELSE /\ staging' = st
           /\ pc' = "returned"

\* transferDataForOrgUnit returning into a loop that ends after it
StagingUnitDoneStop(st) ==
    /\ staging' = [st EXCEPT !.finished = @ \cup {st.idx}]
    /\ pc' = "returned"

\* transferDataForOrgUnit returns, through its end or through its catch block
StagingUnitDone(st) ==
    StagingNextUnit([st EXCEPT !.finished = @ \cup {st.idx}], orgUnits)

\* getOrgUnitsByLevel resolves with n org units (a failed request gives [])
StagingOrgUnits ==
    /\ variant = "staging" /\ pc = "level"
    /\ \E n \in 0..MaxOrgUnits :
         /\ orgUnits' = n
         /\ StagingNextUnit(staging, n)
    /\ UNCHANGED <<variant, bigVars, copy>>

\* downloadCsvFromSource: the GET resolved, pipeline(response.data, writer) runs
StagingDownloadOk ==
    /\ variant = "staging" /\ pc = "download"
    /\ pc' = "pipe"
    /\ UNCHANGED <<variant, orgUnits, bigVars, staging, copy>>

\* downloadCsvFromSource: the GET rejected; logged and rethrown, caught by
\* transferDataForOrgUnit, which logs and returns
StagingDownloadFail ==
    /\ variant = "staging" /\ pc = "download"
    /\ StagingUnitDone(staging)
    /\ UNCHANGED <<variant, orgUnits, bigVars, copy>>

\* pipeline() resolved: the file name is returned and the file is read
StagingPipeOk ==
    /\ variant = "staging" /\ pc = "pipe"
    /\ pc' = "read"
    /\ UNCHANGED <<variant, orgUnits, bigVars, staging, copy>>

\* pipeline() rejected (the response stream or the writer failed)
StagingPipeFail ==
    /\ variant = "staging" /\ pc = "pipe"
    /\ StagingUnitDone(staging)
    /\ UNCHANGED <<variant, orgUnits, bigVars, copy>>

\* transferDataForOrgUnit: readFile resolved; uploadCsvToDestination is
\* called and reads the file again
StagingReadOk ==
    /\ variant = "staging" /\ pc = "read"
    /\ pc' = "uploadRead"
    /\ UNCHANGED <<variant, orgUnits, bigVars, staging, copy>>

\* transferDataForOrgUnit: readFile rejected
StagingReadFail ==
    /\ variant = "staging" /\ pc = "read"
    /\ StagingUnitDone(staging)
    /\ UNCHANGED <<variant, orgUnits, bigVars, copy>>

\* uploadCsvToDestination: readFile resolved and the POST is issued
StagingUploadReadOk ==
    /\ variant = "staging" /\ pc = "uploadRead"
    /\ pc' = "upload"
    /\ UNCHANGED <<variant, orgUnits, bigVars, staging, copy>>

\* uploadCsvToDestination: readFile rejected; logged and rethrown
StagingUploadReadFail ==
    /\ variant = "staging" /\ pc = "uploadRead"
    /\ StagingUnitDone(staging)
    /\ UNCHANGED <<variant, orgUnits, bigVars, copy>>

\* uploadCsvToDestination: the POST resolved; unlink(fileName) is issued
StagingUploadOk ==
    /\ variant = "staging" /\ pc = "upload"
    /\ staging' = [staging EXCEPT !.uploaded = @ \cup {staging.idx}]
    /\ pc' = "unlink"
    /\ UNCHANGED <<variant, orgUnits, bigVars, copy>>

\* uploadCsvToDestination: the POST rejected; logged and rethrown
StagingUploadFail ==
    /\ variant = "staging" /\ pc = "upload"
    /\ StagingUnitDone(staging)
    /\ UNCHANGED <<variant, orgUnits, bigVars, copy>>

\* unlink resolved: the staging file is gone and the call returns
StagingUnlinkOk ==
    /\ variant = "staging" /\ pc = "unlink"
    /\ StagingUnitDone([staging EXCEPT !.files = @ \ {staging.idx}])
    /\ UNCHANGED <<variant, orgUnits, bigVars, copy>>

\* unlink rejected: caught and logged, the file stays
StagingUnlinkFail ==
    /\ variant = "staging" /\ pc = "unlink"
    /\ StagingUnitDone(staging)
    /\ UNCHANGED <<variant, orgUnits, bigVars, copy>>

\* ============================================ CSV pass-through script
\* copyData of the first script before it is called
IdleCopy ==
    [idx         |-> 0,      \* the org unit of the current loop iteration
     sourceData  |-> "none", \* what getSourceData returned: "csv" text or "emptyArray"
     posts       |-> <<>>,   \* submissions issued: [orgUnit, body, res]
     fetchFailed |-> {}]     \* org units whose source fetch failed

\* for (const { id, name } of destinationOrgUnits): the next iteration calls
\* getSourceData, which issues the source GET; after the last one copyData
\* resolves
CopyNextUnit(c, n) ==
    IF c.idx < n
      THEN /\ copy' = [c EXCEPT !.idx = @ + 1, !.sourceData = "none"]
           /\ pc' = "get"
      ELSE /\ copy' = c
           /\ pc' = "returned"

\* await postDataToDestination(sourceData): the POST is issued with
\* whatever getSourceData returned
postDataToDestination(c, data) ==
    [c EXCEPT !.sourceData = data,
              !.posts = Append(@, [orgUnit |-> c.idx, body |-> data,
                                   res |-> "pending"])]

\* getOrganisationUnits resolves with n org units (a failed request gives [])
CopyOrgUnits ==
    /\ variant = "csvcopy" /\ pc = "orgs"
    /\ \E n \in 0..MaxOrgUnits :
         /\ orgUnits' = n
         /\ CopyNextUnit(copy, n)
    /\ UNCHANGED <<variant, bigVars, staging>>

\* getSourceData: the GET resolved with the CSV text, which is posted
CopyGetOk ==
    /\ variant = "csvcopy" /\ pc = "get"
    /\ copy' = postDataToDestination(copy, "csv")
    /\ pc' = "post"
    /\ UNCHANGED <<variant, orgUnits, bigVars, staging>>

\* getSourceData: the GET rejected; the catch logs and returns [], which
\* copyData hands to postDataToDestination like any other result
CopyGetFail ==
    /\ variant = "csvcopy" /\ pc = "get"
    /\ copy' = postDataToDestination(
                  [copy EXCEPT !.fetchFailed = @ \cup {copy.idx}], "emptyArray")
    /\ pc' = "post"
    /\ UNCHANGED <<variant, orgUnits, bigVars, staging>>

\* postDataToDestination: the POST resolved
CopyPostOk ==
    /\ variant = "csvcopy" /\ pc = "post"
    /\ CopyNextUnit([copy EXCEPT !.posts[Len(copy.posts)].res = "ok"], orgUnits)
    /\ UNCHANGED <<variant, orgUnits, bigVars, staging>>

\* postDataToDestination: the POST rejected.  The catch block logs
\* error.response.data.response.conflicts: with an import report in the
\* error the loop goes on; without one the catch block itself throws and
\* copyData rejects.
CopyPostFail ==
    /\ variant = "csvcopy" /\ pc = "post"
    /\ \/ CopyNextUnit([copy EXCEPT !.posts[Len(copy.posts)].res = "httpReport"],
                        orgUnits)
       \/ /\ copy' = [copy EXCEPT !.posts[Len(copy.posts)].res = "noResponse"]
          /\ pc' = "thrown"
    /\ UNCHANGED <<variant, orgUnits, bigVars, staging>>

\* ========================================= JSON per-dataset copy script
\* copyData of the second script before it is called with k data sets.  A
\* pair is <<org unit, data set>>, both counted from 1 in list order.
IdleJsonCopy(k) ==
    [dataSets    |-> k,      \* dataSetIds.length
     ou          |-> 0,      \* the org unit of the current outer iteration
     ds          |-> 0,      \* the data set of the current inner iteration
     sourceLen   |-> 0,      \* sourceData.length of the current pair
     fetches     |-> <<>>,   \* pairs getSourceData was called for, in call order
     fetchFailed |-> {},     \* pairs whose source GET rejected
     noData      |-> {},     \* pairs whose getSourceData returned an empty list
     posts       |-> <<>>,   \* submissions issued: [pair, n, res]
     done        |-> {}]     \* pairs whose loop body has finished

\* What the source GET of one pair may do: resolve with n data values,
\* resolve with a body that has no dataValues field, or reject.
JsonFetchOutcomes ==
    {[kind |-> "values", n |-> 0], [kind |-> "values", n |-> 1],
     [kind |-> "noField", n |-> 0], [kind |-> "rejected", n |-> 0]}

\* getSourceData: response.data.dataValues || [] in the try block, [] in the
\* catch block; the length of what it returns
getSourceDataLength(o) == IF o.kind = "values" THEN o.n ELSE 0

\* copyData submitting whatever getSourceData returned
ShouldPostAlways(len) == TRUE

\* copyData: if (sourceData.length > 0)
ShouldPost(len) == len > 0

\* the two for-of loops: the next inner iteration, or the next outer one, or
\* the end of copyData; the iteration calls getSourceData, which issues the
\* source GET
JsonNextPair(c, n) ==
    LET go(o, d) ==
          /\ copy' = [c EXCEPT !.ou = o, !.ds = d, !.sourceLen = 0,
                                !.fetches = Append(@, <<o, d>>)]
          /\ pc' = "jget"
    IN  IF n = 0 \/ c.dataSets = 0
          THEN copy' = c /\ pc' = "returned"
        ELSE IF c.ou = 0 THEN go(1, 1)
        ELSE IF c.ds < c.dataSets THEN go(c.ou, c.ds + 1)
        ELSE IF c.ou < n THEN go(c.ou + 1, 1)
        ELSE copy' = c /\ pc' = "returned"

\* the body of the inner loop has finished for the current pair
JsonPairDone(c) ==
    JsonNextPair([c EXCEPT !.done = @ \cup {<<c.ou, c.ds>>}], orgUnits)

\* getDestinationOrgUnits resolves with n org units (a failed request gives [])
JsonOrgUnits ==
    /\ variant = "jsoncopy" /\ pc = "jorgs"
    /\ \E n \in 0..MaxOrgUnits :
         /\ orgUnits' = n
         /\ JsonNextPair(copy, n)
    /\ UNCHANGED <<variant, bigVars, staging>>

\* getSourceData settles; with a non-empty list postDataToDestination is
\* called and issues the POST, otherwise "No data found" is logged
JsonGetSettles ==
    /\ variant = "jsoncopy" /\ pc = "jget"
    /\ \E o \in JsonFetchOutcomes :
         LET len  == getSourceDataLength(o)
             pair == <<copy.ou, copy.ds>>
             c1   == [copy EXCEPT !.sourceLen = len,
                                  !.fetchFailed = IF o.kind = "rejected"
                                                    THEN @ \cup {pair} ELSE @,
                                  !.noData = IF len = 0 THEN @ \cup {pair} ELSE @]
         IN  IF ShouldPost(len)
               THEN /\ copy' = [c1 EXCEPT !.posts = Append(@, [pair |-> pair, n |-> len,
                                                                res |-> "pending"])]
                    /\ pc' = "jpost"
               ELSE JsonPairDone(c1)
    /\ UNCHANGED <<variant, orgUnits, bigVars, staging>>

\* postDataToDestination: the POST resolved; success is logged
JsonPostOk ==
    /\ variant = "jsoncopy" /\ pc = "jpost"
    /\ JsonPairDone([copy EXCEPT !.posts[Len(copy.posts)].res = "ok"])
    /\ UNCHANGED <<variant, orgUnits, bigVars, staging>>

\* postDataToDestination: the POST rejected; the catch block logs
\* error.message and the call returns
JsonPostFail ==
    /\ variant = "jsoncopy" /\ pc = "jpost"
    /\ JsonPairDone([copy EXCEPT !.posts[Len(copy.posts)].res = "fail"])
    /\ UNCHANGED <<variant, orgUnits, bigVars, staging>>

\* The arguments of transferData.  Validation reads the dates only, so the
\* date pairs other than the configured one run with the smallest pipeline.
TransferInputs ==
    {[dates |-> ConfigDates, batchSize |-> b, concurrency |-> c] :
        b \in 1..MaxBatchSize, c \in 0..MaxConcurrency}
      \cup {[dates |-> d, batchSize |-> 1, concurrency |-> 1] : d \in DateInputs}

InitStream ==
    /\ variant = "stream"
    /\ \E in \in TransferInputs :
         /\ dates = in.dates
         /\ batchSize = in.batchSize
         /\ concurrency = in.concurrency
    /\ pc = "validate"
    /\ orgUnits = 0
    /\ queue = <<>>
    /\ active = {}
    /\ results = <<>>
    /\ completed = 0
    /\ raceSet = {}
    /\ unit = [u \in UnitIds |-> IdleUnit]
    /\ returned = <<>>
    /\ m = IdleMain
    /\ staging = IdleStaging
    /\ copy = IdleCopy

InitMain2 ==
    /\ variant = "main2"
    /\ batchSize \in 1..MaxBatchSize
    /\ concurrency = 0
    /\ pc = "orgs"
    /\ orgUnits = 0
    /\ queue = <<>>
    /\ active = {}
    /\ results = <<>>
    /\ completed = 0
    /\ raceSet = {}
    /\ unit = [u \in UnitIds |-> IdleUnit]
    /\ returned = <<>>
    /\ m = IdleMain
    /\ dates = ConfigDates
    /\ staging = IdleStaging
    /\ copy = IdleCopy

InitMain1 ==
    /\ variant = "main1"
    /\ batchSize \in 1..MaxBatchSize
    /\ concurrency = 0
    /\ pc = "orgs"
    /\ orgUnits = 0
    /\ queue = <<>>
    /\ active = {}
    /\ results = <<>>
    /\ completed = 0
    /\ raceSet = {}
    /\ unit = [u \in UnitIds |-> IdleUnit]
    /\ returned = <<>>
    /\ m = IdleMain
    /\ dates = ConfigDates
    /\ staging = IdleStaging
    /\ copy = IdleCopy

\* transferDataForLevel(dataSetId, level, startDate, endDate) is called
InitStaging ==
    /\ variant = "staging"
    /\ batchSize = 1
    /\ concurrency = 0
    /\ pc = "level"
    /\ orgUnits = 0
    /\ queue = <<>>
    /\ active = {}
    /\ results = <<>>
    /\ completed = 0
    /\ raceSet = {}
    /\ unit = [u \in UnitIds |-> IdleUnit]
    /\ returned = <<>>
    /\ m = IdleMain
    /\ dates = ConfigDates
    /\ staging = IdleStaging
    /\ copy = IdleCopy

\* copyData(dataSetIds, startDate, endDate) of the first script is called
InitCopy ==
    /\ variant = "csvcopy"
    /\ batchSize = 1
    /\ concurrency = 0
    /\ pc = "orgs"
    /\ orgUnits = 0
    /\ queue = <<>>
    /\ active = {}
    /\ results = <<>>
    /\ completed = 0
    /\ raceSet = {}
    /\ unit = [u \in UnitIds |-> IdleUnit]
    /\ returned = <<>>
    /\ m = IdleMain
    /\ dates = ConfigDates
    /\ staging = IdleStaging
    /\ copy = IdleCopy

\* copyData(dataSetIds, startDate, endDate) of the second script is called
InitJsonCopy ==
    /\ variant = "jsoncopy"
    /\ batchSize = 1
    /\ concurrency = 0
    /\ pc = "jorgs"
    /\ orgUnits = 0
    /\ queue = <<>>
    /\ active = {}
    /\ results = <<>>
    /\ completed = 0
    /\ raceSet = {}
    /\ unit = [u \in UnitIds |-> IdleUnit]
    /\ returned = <<>>
    /\ m = IdleMain
    /\ dates = ConfigDates
    /\ staging = IdleStaging
    /\ \E k \in 0..MaxDataSets : copy = IdleJsonCopy(k)

Init == InitStream \/ InitMain1 \/ InitMain2 \/ InitStaging \/ InitCopy

NextStream ==
    \/ ValidateOk
    \/ ValidateFail
    \/ GetOrgUnitsOk
    \/ GetOrgUnitsFail
    \/ StartUnit
    \/ AwaitRace
    \/ RaceResumes
    \/ AwaitAll
    \/ ReturnResults
    \/ \E u \in UnitIds :
         \/ FetchOk(u)
         \/ FetchFail(u)
         \/ PipeRow(u)
         \/ PipeFlush(u)
         \/ UploadOk(u)
         \/ UploadFail(u)
         \/ PipeError(u)
         \/ ThenCallback(u)

NextMain2 ==
    \/ M2OrgsOk
    \/ M2OrgsFail
    \/ M2FetchOk
    \/ M2FetchFail
    \/ M2Step
    \/ M2Complete
    \/ M2PostSettles

NextMain1 ==
    \/ M1OrgsSettle
    \/ M1ElementsOk
    \/ M1ElementsFail
    \/ M1FetchOk
    \/ M1FetchFail
    \/ M1Step
    \/ M1Complete
    \/ M1PostSettles

NextStaging ==
    \/ StagingOrgUnits
    \/ StagingDownloadOk
    \/ StagingDownloadFail
    \/ StagingPipeOk
    \/ StagingPipeFail
    \/ StagingReadOk
    \/ StagingReadFail
    \/ StagingUploadReadOk
    \/ StagingUploadReadFail
    \/ StagingUploadOk
    \/ StagingUploadFail
    \/ StagingUnlinkOk
    \/ StagingUnlinkFail

NextCopy ==
    \/ CopyOrgUnits
    \/ CopyGetOk
    \/ CopyGetFail
    \/ CopyPostOk
    \/ CopyPostFail

NextJsonCopy ==
    \/ JsonOrgUnits
    \/ JsonGetSettles
    \/ JsonPostOk
    \/ JsonPostFail

Next == NextStream \/ Signal \/ NextMain1 \/ NextMain2 \/ NextStaging \/ NextCopy

Spec == Init /\ [][Next]_vars

\* One script at a time.
SpecStream == InitStream /\ [][NextStream]_vars

\* The streaming script with the operator's interrupt.
SpecStreamSignal == InitStream /\ [][NextStream \/ Signal]_vars
SpecMain2 == InitMain2 /\ [][NextMain2]_vars
SpecMain1 == InitMain1 /\ [][NextMain1]_vars
SpecJsonCopy == InitJsonCopy /\ [][NextJsonCopy]_vars

\* The event loop runs every callback that is ready, and every request that
\* was issued settles (the transport's own timeout bounds it): a step that
\* stays possible is eventually taken.
FairSpecStream == SpecStream /\ WF_vars(NextStream)
FairSpecMain2 == SpecMain2 /\ WF_vars(NextMain2)

\* The streaming script in the runs where every processOrgUnit call settles:
\* no pipeline() promise is left pending for ever.
NextStreamSettling == NextStream /\ \A u \in UnitIds : unit'[u].st # "stuck"
FairSpecStreamSettling ==
    InitStream /\ [][NextStreamSettling]_vars /\ WF_vars(NextStreamSettling)

\* ================================================================ claims
CeilDiv(n, b) == (n + b - 1) \div b

\* units whose processOrgUnit call was started and whose completion callback
\* has not run yet
InFlightUnits == {u \in UnitIds : unit[u].starts > 0 /\ unit[u].st # "done"}

\* C1: in processConcurrentOrgUnits the number of units started and not yet
\* completed (which is the active set) never exceeds the configured
\* concurrency, so a further unit is started only after one completed.
C1_ActiveBounded ==
    variant = "stream" =>
        /\ active = InFlightUnits
        /\ Cardinality(InFlightUnits) <= concurrency

\* C1 witness: the pool is full while a unit is still queued
C1_Witness ==
    /\ variant = "stream" /\ pc = "race"
    /\ concurrency >= 1
    /\ Cardinality(active) = concurrency
    /\ Len(queue) > 0

\* a started unit has settled: its processOrgUnit promise resolved
Settled(u) == unit[u].st \in {"resolved", "done"}

\* when processConcurrentOrgUnits has returned, every org unit of the input
\* list was started exactly once and has exactly one outcome in the result
ReturnedComplete ==
    /\ \A u \in 1..orgUnits : unit[u].starts = 1
    /\ \A u \in UnitIds \ (1..orgUnits) : unit[u].starts = 0
    /\ Len(returned) = orgUnits
    /\ \A u \in 1..orgUnits :
         Cardinality({i \in 1..Len(returned) : returned[i].orgUnitId = u}) = 1

\* C2: for every org-unit list and every concurrency >= 1, in the runs where
\* each started unit settles, processConcurrentOrgUnits eventually returns,
\* and then every org unit was started exactly once and has one outcome.
C2_Terminates ==
    /\ (pc = "loop" /\ concurrency >= 1) ~> (pc = "returned" /\ ReturnedComplete)
    /\ [](pc = "returned" => ReturnedComplete)

\* C2 witness: returned with every unit of a two-unit list run to an outcome
C2_Witness ==
    /\ variant = "stream" /\ pc = "returned"
    /\ orgUnits = 2 /\ concurrency >= 1
    /\ ReturnedComplete

\* a unit of work has failed: fetch error, parse error or submit error
UnitFailed(u) ==
    \/ unit[u].outcome.kind = "error"
    \/ \E i \in 1..Len(unit[u].posts) : unit[u].posts[i].res = "fail"

\* C3 (as claimed): a unit that fails never prevents a sibling: every org
\* unit is still started and runs to its own outcome, and the failed unit
\* appears in the result list with its org-unit name and an error message.
C3_FailureIsolated ==
    \A u \in UnitIds :
        [](variant = "stream" /\ concurrency >= 1 /\ UnitFailed(u)
             => <>(/\ pc = "returned"
                   /\ ReturnedComplete
                   /\ \E i \in 1..Len(returned) :
                        /\ returned[i].kind = "error"
                        /\ returned[i].orgUnitName = OrgUnitName(u)))

\* C4 (as claimed): the summary of the first class counts every org unit
\* attempted and its errors list names exactly the units whose download failed.
C4_ErrorsNameFailedUnits ==
    variant = "main1" /\ pc = "returned" /\ m.result.kind = "summary" =>
        /\ m.result.totalOrgUnits = orgUnits
        /\ m.fetched = orgUnits
        /\ {m.result.errors[i].orgUnit : i \in 1..Len(m.result.errors)}
              = {OrgUnitName(u) : u \in m.failed}

\* C5 (as claimed): in the streaming unit of work, once the submission of a
\* batch has failed, every later batch of the unit is still submitted: when
\* the unit stops, its whole input was batched and every batch was posted.
C5_LaterBatchesSubmitted ==
    \A u \in UnitIds :
        (/\ variant = "stream"
         /\ unit[u].st \in {"resolved", "stuck"}
         /\ \E i \in 1..Len(unit[u].posts) : unit[u].posts[i].res = "fail")
          => /\ unit[u].flushed
             /\ Len(unit[u].posts) = Len(unit[u].pushed)

\* C6 (as claimed): in downloadCSV of the second class, after a batch POST
\* failed, with or without an import report in the error, the next batch of
\* the unit is submitted.
C6_NextBatchAfterFailure ==
    variant = "main2" =>
        \A i \in 1..Len(m.posts) :
            (m.posts[i].kind \in {"httpReport", "noResponse"} /\ i < Len(m.batches))
              => Len(m.posts) > i

\* C7 (as claimed): every unit of work of the second class reaches a terminal
\* state whatever the fetch and the POSTs answer, so transferData eventually
\* returns its summary (or throws when the org-unit request failed).
C7_UnitTerminates ==
    variant = "main2" => <>(pc \in {"returned", "thrown"})

\* C8: BatchProcessor fed N records and then end-of-input has pushed exactly
\* ceil(N/B) batches, all of size B except the last of size N mod B (B when
\* N mod B = 0), whose concatenation is the input sequence.
C8_Batching ==
    \A u \in UnitIds :
        (variant = "stream" /\ unit[u].flushed) =>
            LET n == unit[u].consumed
                b == batchSize
                out == unit[u].pushed
            IN /\ Len(out) = CeilDiv(n, b)
               /\ \A i \in 1..Len(out) :
                    Len(out[i]) = IF i < Len(out) THEN b
                                  ELSE IF n % b = 0 THEN b ELSE n % b
               /\ Flatten(out) = [i \in 1..n |-> PayloadTransformer(CsvRow(i))]

\* C8 witness: the input has ended and was pushed as two batches
C8_Witness ==
    \E u \in UnitIds :
        /\ variant = "stream" /\ unit[u].flushed
        /\ unit[u].consumed >= 2
        /\ Len(unit[u].pushed) = 2

\* every batch handed to a submit operation so far
SubmittedBatches ==
    UNION {{unit[u].posts[i].batch : i \in 1..Len(unit[u].posts)} : u \in UnitIds}
      \cup {m.posts[i].batch : i \in 1..Len(m.posts)}

\* C9: every batch handed to a submit operation (DataUploader._transform,
\* processDataValuesBatch of both classes) has 0 < len(batch) <= batchSize.
C9_BatchSize ==
    \A b \in SubmittedBatches : 0 < Len(b) /\ Len(b) <= batchSize

\* C9 witness: the streaming uploader was handed the batch of the final
\* flush, smaller than the batch size
C9_Witness ==
    \E u \in UnitIds :
        /\ unit[u].flushed
        /\ Len(unit[u].posts) > 0
        /\ Len(unit[u].posts[Len(unit[u].posts)].batch) < batchSize

\* a raw CSV row carries all six mandatory columns with a non-blank text
NonBlank(c) == c # Undef /\ \E i \in 1..Len(c) : c[i] # " "
RowComplete(raw) == \A f \in RawFields : NonBlank(raw[f])

\* C10: in downloadCSV of both classes a row in which one of the six
\* mandatory columns is missing or blank is never kept, never reaches a
\* submitted batch and does not stop the parse; every complete row is kept.
C10_InvalidRowsDropped ==
    variant \in {"main1", "main2"} =>
        /\ \A i \in 1..Len(m.posts) : \A j \in 1..Len(m.posts[i].batch) :
             \A f \in CanonFields : NonBlank(m.posts[i].batch[j][f])
        /\ \A j \in 1..Len(m.dataValues) :
             \A f \in CanonFields : NonBlank(m.dataValues[j][f])
        /\ (pc = "parse" /\ m.parsed > 0) =>
             (RowComplete(m.row) <=>
                (/\ Len(m.dataValues) > 0
                 /\ m.dataValues[Len(m.dataValues)].line = m.parsed))

\* C10 witness: a blank-column row was just dropped after a complete row
\* had been kept, and the parse goes on
C10_Witness ==
    /\ variant \in {"main1", "main2"} /\ pc = "parse"
    /\ m.parsed = 2
    /\ ~RowComplete(m.row)
    /\ Len(m.dataValues) = 1

\* C11 (as claimed): every record of every batch posted by the streaming
\* pipeline has its six canonical fields present (not undefined) and non-empty,
\* for CSV input whose header uses the lower-case column names.
C11_PostedFieldsPresent ==
    \A u \in UnitIds : \A i \in 1..Len(unit[u].posts) :
        \A j \in 1..Len(unit[u].posts[i].batch) :
            \A f \in PayloadFields :
                /\ unit[u].posts[i].batch[j][f] # Undef
                /\ unit[u].posts[i].batch[j][f] # <<>>

\* a string that is a calendar date written YYYY-MM-DD
WellFormedDate(ds) ==
    /\ DateRegexTest(ds)
    /\ MonthOf(ds) \in 1..12
    /\ DayOf(ds) \in 1..DaysInMonth(YearOf(ds), MonthOf(ds))

\* calendar order of two well-formed dates
DateLeq(a, b) ==
    \/ YearOf(a) < YearOf(b)
    \/ YearOf(a) = YearOf(b) /\ MonthOf(a) < MonthOf(b)
    \/ YearOf(a) = YearOf(b) /\ MonthOf(a) = MonthOf(b) /\ DayOf(a) <= DayOf(b)

\* both dates well-formed and startDate not later than endDate
ValidDateRange(d) ==
    /\ WellFormedDate(d.startDate)
    /\ WellFormedDate(d.endDate)
    /\ DateLeq(d.startDate, d.endDate)

\* a network call has been issued: the catalog request is the first one
NetworkCallIssued ==
    \/ pc \notin {"validate", "rejected"}
    \/ \E u \in UnitIds : unit[u].starts > 0

\* C12 (as claimed): in the streaming transferData, when a date is not a
\* well-formed YYYY-MM-DD date or startDate is later than endDate, the run
\* aborts and no network call is ever issued.
C12_NoCallOnBadDates ==
    (variant = "stream" /\ ~ValidDateRange(dates)) => ~NetworkCallIssued

\* the records of a list of submissions, in submission order
PostedRecords(posts) == Flatten([i \in 1..Len(posts) |-> posts[i].batch])

C14_BatchBeforeParse ==
    (variant \in {"main1", "main2"} /\ m.posts = <<>>) =>
        ~(/\ Len(m.dataValues) >= batchSize
          /\ m.parsed > m.dataValues[batchSize].line)

\* C15 (as claimed): in the file-staging script, when a unit of work has
\* finished, through whichever exit path, its staging file no longer exists.
C15_StagingFileRemoved ==
    variant = "staging" => \A u \in staging.finished : u \notin staging.files

\* C16 (as claimed): in the CSV pass-through copyData, no submission is
\* issued for an org unit whose source fetch failed; the loop goes on with
\* the next org unit.
C16_NoPostAfterFetchFailure ==
    variant = "csvcopy" =>
        \A i \in 1..Len(copy.posts) : copy.posts[i].orgUnit \notin copy.fetchFailed

\* C17 (as claimed): the summary returned by transferData of the first class
\* reports totals equal to the sums of the counts in the import reports the
\* destination returned for the batches submitted during the run.
C17_TotalsAreReportSums ==
    (variant = "main1" /\ pc = "returned" /\ m.result.kind = "summary") =>
        /\ m.result.totalImported = m.reported.imported
        /\ m.result.totalUpdated = m.reported.updated
        /\ m.result.totalIgnored = m.reported.ignored
        /\ m.result.totalDeleted = m.reported.deleted

\* the counts of one unit outcome
OutcomeCounts(o) ==
    [imported |-> o.imported, updated |-> o.updated,
     ignored |-> o.ignored, deleted |-> o.deleted]

\* the sum of the counts of a set of unit outcomes taken in the order seq
RECURSIVE SumOutcomes(_, _)
SumOutcomes(outs, seq) ==
    IF seq = <<>> THEN ZeroCounts
    ELSE AddCounts(OutcomeCounts(outs[Head(seq)]), SumOutcomes(outs, Tail(seq)))

\* the orders in which n outcomes can be taken
UnitOrders(n) ==
    {f \in [1..n -> 1..n] : \A i, j \in 1..n : i # j => f[i] # f[j]}

\* the totals of a returned summary
SummaryTotals(r) ==
    [imported |-> r.totalImported, updated |-> r.totalUpdated,
     ignored |-> r.totalIgnored, deleted |-> r.totalDeleted]

\* C18: in transferData of the second class each total of the summary is
\* the sum of that count over the outcomes of the units that completed, in
\* whichever order they are taken; the units listed in errors have no outcome
\* and add nothing.
C18_TotalsOrderIndependent ==
    (variant = "main2" /\ pc = "returned") =>
        /\ \A f \in UnitOrders(Len(m.outcomes)) :
             SummaryTotals(m.result) = SumOutcomes(m.outcomes, f)
        /\ {m.outcomes[i].orgUnit : i \in 1..Len(m.outcomes)} \cap m.failed = {}
        /\ {m.result.errors[i].orgUnit : i \in 1..Len(m.result.errors)}
              = {OrgUnitName(u) : u \in m.failed}
        /\ Len(m.outcomes) + Cardinality(m.failed) = orgUnits

\* C18 witness: a summary over two units, one completed with a non-zero
\* count and one listed in errors
C18_Witness ==
    /\ variant = "main2" /\ pc = "returned"
    /\ orgUnits = 2
    /\ Len(m.outcomes) = 1
    /\ m.outcomes[1].imported + m.outcomes[1].ignored > 0
    /\ Cardinality(m.failed) = 1

\* the counts and the conflicts the answers to a unit's settled submissions
\* carry, in submission order
RECURSIVE ReportedOf(_)
ReportedOf(posts) ==
    IF posts = <<>> THEN [counts |-> ZeroCounts, conflicts |-> <<>>]
    ELSE LET rest == ReportedOf(SubSeq(posts, 1, Len(posts) - 1))
             p == posts[Len(posts)]
         IN IF p.kind \in {"ok", "httpReport"}
              THEN [counts |-> AddCounts(rest.counts, p.out.report.importCount),
                    conflicts |-> IF p.out.report.hasConflicts
                                    THEN rest.conflicts \o p.out.report.conflicts
                                    ELSE Append(rest.conflicts, "undefined")]
              ELSE rest

\* C19: in the second class, when a batch POST fails at HTTP level with an
\* import report in the error body, the report is not discarded: its counts
\* are added to the unit's imported/updated/ignored/deleted and its conflicts
\* are appended to the unit's conflicts, exactly as for a successful POST.
C19_ErrorReportExtracted ==
    variant = "main2" =>
        /\ m.uTot = ReportedOf(m.posts).counts
        /\ m.conflicts = ReportedOf(m.posts).conflicts
        /\ \A i \in 1..Len(m.posts) :
             (m.posts[i].kind = "httpReport" /\ m.posts[i].out.report.hasConflicts) =>
                 \E k \in 1..Len(m.conflicts) :
                     m.conflicts[k] = m.posts[i].out.report.conflicts[1]

\* C19 witness: a POST failed at HTTP level with a report of one ignored
\* value and one conflict, and the unit went on to its next batch
C19_Witness ==
    /\ variant = "main2" /\ pc = "post"
    /\ Len(m.posts) = 2
    /\ m.posts[1].kind = "httpReport"
    /\ m.posts[1].out.report.hasConflicts
    /\ m.uTot.ignored = 1
    /\ m.conflicts = <<"c1">>

\* C20 (as claimed): a unit of work of the second class with V valid rows
\* and batch size B issues exactly ceil(V/B) POSTs carrying the valid rows
\* only, in order; a unit whose fetch failed is listed in errors.  Once the
\* unit has stopped submitting, every one of its batches has been posted.
C20_EndToEnd ==
    variant = "main2" =>
        /\ {m.errors[i].orgUnit : i \in 1..Len(m.errors)}
              = {OrgUnitName(u) : u \in m.failed}
        /\ pc \in {"post", "stuck", "crashed"} =>
             /\ Len(m.batches) = CeilDiv(Len(m.dataValues), batchSize)
             /\ Flatten(m.batches) = m.dataValues
             /\ PostedRecords(m.posts) = SubSeq(m.dataValues, 1, Len(PostedRecords(m.posts)))
        /\ pc \in {"stuck", "crashed"} => Len(m.posts) = Len(m.batches)

\* C21: in the first class every record of every batch posted to the
\* destination has a dataElement of the permitted set fetchDataElements
\* resolved with; records of other elements are never submitted.
C21_OnlyPermittedElements ==
    variant = "main1" =>
        \A i \in 1..Len(m.posts) : \A j \in 1..Len(m.posts[i].batch) :
            m.posts[i].batch[j].dataElement \in m.elements

\* C21 witness: a valid row of an element outside the permitted set was
\* parsed and kept, and a batch without it has been posted
C21_Witness ==
    /\ variant = "main1" /\ pc = "post"
    /\ \E j \in 1..Len(m.dataValues) : m.dataValues[j].dataElement \notin m.elements
    /\ Len(m.posts) >= 1

\* C22 (as claimed): when the streaming script is interrupted (SIGINT or
\* SIGTERM) while units are in flight, every unit that was started reaches
\* its own outcome and has its streams destroyed before the process ends.
C22_InterruptDrainsUnits ==
    (variant = "stream" /\ pc = "interrupted") =>
        \A u \in UnitIds :
            unit[u].starts > 0 =>
                /\ unit[u].outcome # NoOutcome
                /\ unit[u].destroyed

\* the run failed on its configuration: the date range was rejected
ConfigFailure == variant = "stream" /\ pc = "rejected"

\* C23 (as claimed): in the second main.js variant and in the streaming
\* script only a configuration error is fatal: a run that ended without one
\* ended with a summary, and the exit code is non-zero exactly for a
\* configuration failure.
C23_OnlyConfigErrorFatal ==
    (variant \in {"main2", "stream"} /\ ProcessEnded) =>
        /\ (ExitCode # 0) <=> ConfigFailure
        /\ ~ConfigFailure => pc = "returned"

\* units whose completion callback has run
DoneUnits == {u \in UnitIds : unit[u].st = "done"}

\* C24: in processConcurrentOrgUnits, at every scheduling point
\* completed + in-flight units + queued units is the number of input org
\* units; completed changes only by one, in the step in which exactly one
\* unit completes; and it is the number of input org units at the return.
C24_ProgressSerial ==
    /\ [](variant = "stream" /\ pc \in {"loop", "race", "all", "returned"} =>
            /\ completed + Cardinality(InFlightUnits) + Len(queue) = orgUnits
            /\ completed = Cardinality(DoneUnits)
            /\ pc = "returned" => completed = orgUnits)
    /\ [][variant = "stream" =>
            \/ completed' = completed /\ DoneUnits' = DoneUnits
            \/ /\ completed' = completed + 1
               /\ \E u \in UnitIds \ DoneUnits : DoneUnits' = DoneUnits \cup {u}]_vars

\* C24 witness: one unit of two has completed while the other is in flight
C24_Witness ==
    /\ variant = "stream" /\ pc = "race"
    /\ orgUnits = 2 /\ completed = 1
    /\ Cardinality(InFlightUnits) = 1 /\ Len(queue) = 0

\* C25: processConcurrentOrgUnits with concurrency <= 0 and a non-empty
\* org-unit list never starts a unit and never returns, and the validation
\* of transferData rejects a run for its dates only, never for such a
\* concurrency.
C25_NoProgressWithoutConcurrency ==
    (variant = "stream" /\ concurrency <= 0) =>
        /\ pc = "rejected" => ~DatesAccepted(dates)
        /\ orgUnits > 0 =>
              /\ \A u \in UnitIds : unit[u].starts = 0
              /\ results = <<>> /\ active = {}
              /\ pc \in {"loop", "race"}
              /\ pc = "race" => raceSet = {}

\* C25 witness: waiting on a race over the empty active set, two units queued
C25_Witness ==
    /\ variant = "stream" /\ concurrency <= 0
    /\ pc = "race" /\ raceSet = {}
    /\ orgUnits = 2 /\ Len(queue) = 2

\* C26: processConcurrentOrgUnits starts the units in the order of the input
\* list (the k units started so far are the first k of the list, the queue
\* is the rest), and the returned list has the outcome of org unit i at
\* position i, whatever the order in which the units completed.
C26_InputOrder ==
    (variant = "stream" /\ pc \in {"loop", "race", "all", "returned"}) =>
        /\ results = Iota(Len(results))
        /\ queue = [i \in 1..(orgUnits - Len(results)) |-> Len(results) + i]
        /\ \A u \in UnitIds : unit[u].starts > 0 <=> u \in 1..Len(results)
        /\ pc = "returned" =>
              /\ Len(returned) = orgUnits
              /\ \A i \in 1..orgUnits :
                    /\ returned[i].orgUnitId = i
                    /\ returned[i] = unit[i].outcome

\* C26 witness: the unit started second has completed while the unit
\* started first is still in flight
C26_Witness ==
    /\ variant = "stream" /\ pc = "race"
    /\ results = <<1, 2>>
    /\ unit[2].st = "done" /\ unit[1].st \notin {"resolved", "done"}

\* the entry has the success shape: counts and no error
CountsOnly(o) ==
    DOMAIN o = {"kind", "orgUnitId", "orgUnitName", "recordCount", "batchCount"}

\* the entry has the failure shape: an error message and no counts
ErrorOnly(o) == DOMAIN o = {"kind", "orgUnitId", "orgUnitName", "error"}

\* the processOrgUnit call of u has resolved with an entry of exactly one of
\* the two shapes, and the streams it registered (none when the fetch
\* failed) have been destroyed
ResolvedCleanly(u) ==
    /\ Settled(u)
    /\ unit[u].outcome.orgUnitId = u
    /\ CountsOnly(unit[u].outcome) # ErrorOnly(unit[u].outcome)
    /\ (ErrorOnly(unit[u].outcome) /\ unit[u].outcome.error = "fetch")
         \/ unit[u].destroyed

\* C27 (as claimed): every processOrgUnit call that was started resolves,
\* whatever the fetch, the parsing and each batch POST answer, with an entry
\* that carries either counts or an error message, never both and never
\* neither, and with every stream it registered destroyed.
C27_AlwaysResolves ==
    \A u \in UnitIds :
        /\ [](variant = "stream" /\ Settled(u) => ResolvedCleanly(u))
        /\ (variant = "stream" /\ unit[u].starts > 0) ~> ResolvedCleanly(u)

\* the POSTs of unit u that the destination accepted
OkPosts(u) == {i \in 1..Len(unit[u].posts) : unit[u].posts[i].res = "ok"}

RECURSIVE SumBatchSizes(_, _)
SumBatchSizes(p, I) ==
    IF I = {} THEN 0
    ELSE LET i == CHOOSE j \in I : TRUE
         IN  Len(p[i].batch) + SumBatchSizes(p, I \ {i})

RECURSIVE SumOkCounts(_)
SumOkCounts(U) ==
    IF U = {} THEN 0
    ELSE LET u == CHOOSE v \in U : TRUE
         IN  unit[u].outcome.recordCount + SumOkCounts(U \ {u})

\* C28: while a unit's pipeline exists, DataUploader.recordCount is the sum
\* of the sizes of the batches whose POST succeeded and batchCount their
\* number; a success entry carries these counts and an error entry carries
\* none, whatever the destination accepted before; and the total of the run
\* is the sum of recordCount over the units without an error.
C28_CountsOnlySucceeded ==
    variant = "stream" =>
        /\ \A u \in UnitIds :
              /\ unit[u].st \in {"piping", "resolved", "stuck"} =>
                    /\ unit[u].recordCount = SumBatchSizes(unit[u].posts, OkPosts(u))
                    /\ unit[u].batchCount = Cardinality(OkPosts(u))
              /\ (unit[u].st = "resolved" /\ unit[u].outcome.kind = "ok") =>
                    /\ unit[u].outcome.recordCount = unit[u].recordCount
                    /\ unit[u].outcome.batchCount = unit[u].batchCount
              /\ (Settled(u) /\ unit[u].outcome.kind = "error") =>
                    /\ "recordCount" \notin DOMAIN unit[u].outcome
                    /\ TotalRecords(<<unit[u].outcome>>) = 0
        /\ pc = "returned" =>
              TotalRecords(returned) =
                SumOkCounts({u \in 1..orgUnits : unit[u].outcome.kind = "ok"})

\* C28 witness: a unit resolved with an error entry after the destination
\* had accepted an earlier batch of it
C28_Witness ==
    /\ variant = "stream"
    /\ \E u \in UnitIds :
         /\ unit[u].st = "resolved" /\ unit[u].outcome.kind = "error"
         /\ unit[u].recordCount > 0 /\ OkPosts(u) # {}

\* the steps of the current unit that follow the complete download
StagingAfterDownload == {"read", "uploadRead", "upload", "unlink"}

\* C29: in the file-staging script the steps of a unit are strictly ordered
\* (the file is read and uploaded only after pipeline() has resolved, never
\* after a failed download, and it is deleted only by the unlink that
\* follows the successful upload of that unit), a unit is started only
\* when the unit before it has finished, and transferDataForLevel returns
\* only when every org unit has been processed, failed ones included.
C29_StagingOrdered ==
    /\ [](variant = "staging" =>
            /\ staging.finished = 1..(staging.idx - (IF pc = "returned" THEN 0 ELSE 1))
            /\ staging.created = 1..staging.idx
            /\ staging.uploaded \subseteq staging.created
            /\ staging.created \ staging.files \subseteq staging.uploaded
            /\ pc = "unlink" => staging.idx \in staging.uploaded
            /\ pc \in {"download", "pipe", "read", "uploadRead", "upload"} =>
                  staging.idx \notin staging.uploaded
            /\ pc = "returned" => staging.finished = 1..orgUnits)
    /\ [][variant = "staging" =>
            /\ pc' = "pipe" => pc = "download"
            /\ pc' = "read" => pc = "pipe"
            /\ pc' = "uploadRead" => pc = "read"
            /\ pc' = "upload" => pc = "uploadRead"
            /\ pc' = "unlink" => pc = "upload"
            /\ (pc' \in StagingAfterDownload \cup {"pipe"}) => staging'.idx = staging.idx
            /\ staging'.uploaded # staging.uploaded =>
                  pc = "upload" /\ staging'.uploaded = staging.uploaded \cup {staging.idx}
            /\ staging'.files \ staging.files \subseteq {staging.idx + 1}
            /\ staging.files \ staging'.files # {} =>
                  /\ pc = "unlink"
                  /\ staging.files \ staging'.files = {staging.idx}
            /\ staging'.idx # staging.idx =>
                  /\ staging'.idx = staging.idx + 1
                  /\ pc' = "download"
                  /\ staging.idx # 0 => staging.idx \in staging'.finished]_vars

\* C29 witness: both units were processed although the first one failed; the
\* second was uploaded and its file deleted
C29_Witness ==
    /\ variant = "staging" /\ pc = "returned"
    /\ orgUnits = 2 /\ staging.finished = {1, 2}
    /\ staging.uploaded = {2} /\ staging.files = {1}

\* C30: in transferData of the first class, once the org-unit request or the
\* dataSets request has failed, no source download and no destination
\* submission is issued, and the call ends by resolving with undefined: it
\* neither throws nor returns a summary.
C30_CatalogFailureResolvesUndefined ==
    (variant = "main1" /\ (~m.orgsDefined \/ m.elementsFailed)) =>
        /\ m.fetched = 0 /\ m.posts = <<>> /\ m.outcomes = <<>>
        /\ pc \in {"elements", "returned"}
        /\ pc = "returned" => m.result = [kind |-> "undefined"]
        /\ m.elementsFailed => pc = "returned"

\* C30 witness: the org-unit request gave two org units, the dataSets
\* request failed, and transferData has resolved with undefined
C30_Witness ==
    /\ variant = "main1" /\ pc = "returned"
    /\ m.orgsDefined /\ orgUnits = 2 /\ m.elementsFailed
    /\ m.result = [kind |-> "undefined"]

\* the conflict entries the destination reported for a unit's settled
\* submissions, in batch order; a report without a conflicts field has none
RECURSIVE ReportedConflicts(_)
ReportedConflicts(posts) ==
    IF posts = <<>> THEN <<>>
    ELSE LET rest == ReportedConflicts(SubSeq(posts, 1, Len(posts) - 1))
             p == posts[Len(posts)]
         IN IF p.kind \in {"ok", "httpReport"} /\ p.out.report.hasConflicts
              THEN rest \o p.out.report.conflicts
              ELSE rest

\* C31 (as claimed): in downloadCSV of the second class the conflicts list
\* of a unit holds exactly the conflict entries the destination reported
\* for the unit's batches, in batch order; a batch whose import report has
\* no conflicts field contributes no element.
C31_ConflictsExact ==
    variant = "main2" => m.conflicts = ReportedConflicts(m.posts)

\* the (org unit, data set) pairs of n org units and k data sets in
\* cross-product order: org unit by org unit, data sets in list order
CrossProduct(n, k) ==
    [i \in 1..(n * k) |-> <<((i - 1) \div k) + 1, ((i - 1) % k) + 1>>]

\* the pairs a submission was issued for
PostedPairs == {copy.posts[i].pair : i \in 1..Len(copy.posts)}

\* C32: in copyData of the JSON per-dataset script the pairs are taken one
\* at a time in cross-product order, each exactly once (a pair is started
\* only when every pair before it has finished); a submission is issued for
\* a pair only if its fetch returned at least one data value, at most once
\* and in the same order; and copyData returns only when every pair has
\* been processed, whatever fetches and submissions failed.
C32_PairsSequential ==
    (variant = "jsoncopy" /\ pc # "jorgs") =>
        LET all     == CrossProduct(orgUnits, copy.dataSets)
            running == IF pc \in {"jget", "jpost"} THEN 1 ELSE 0
        IN  /\ Len(copy.fetches) <= Len(all)
            /\ copy.fetches = SubSeq(all, 1, Len(copy.fetches))
            /\ copy.done = {copy.fetches[i] : i \in 1..(Len(copy.fetches) - running)}
            /\ pc = "returned" => copy.fetches = all
            /\ copy.fetchFailed \subseteq copy.noData
            /\ \A i \in 1..Len(copy.posts) :
                  /\ copy.posts[i].n >= 1
                  /\ copy.posts[i].pair \notin copy.noData
                  /\ \E j \in 1..Len(copy.fetches) : copy.fetches[j] = copy.posts[i].pair
                  /\ \A j \in 1..Len(copy.posts) :
                        i < j => \E a, b \in 1..Len(copy.fetches) :
                                    /\ a < b
                                    /\ copy.fetches[a] = copy.posts[i].pair
                                    /\ copy.fetches[b] = copy.posts[j].pair
            /\ \A q \in copy.done : (q \in copy.noData) # (q \in PostedPairs)
            /\ pc = "jpost" =>
                  /\ copy.sourceLen >= 1
                  /\ copy.posts[Len(copy.posts)] =
                        [pair |-> <<copy.ou, copy.ds>>, n |-> copy.sourceLen,
                         res |-> "pending"]

\* C32 witness: all four pairs of two org units and two data sets were
\* processed although the fetch of the first pair and the submission of the
\* second failed; the last pair was submitted
C32_Witness ==
    /\ variant = "jsoncopy" /\ pc = "returned"
    /\ orgUnits = 2 /\ copy.dataSets = 2
    /\ Len(copy.fetches) = 4
    /\ <<1, 1>> \in copy.fetchFailed
    /\ Len(copy.posts) >= 2
    /\ copy.posts[1] = [pair |-> <<1, 2>>, n |-> 1, res |-> "fail"]
    /\ copy.posts[Len(copy.posts)].pair = <<2, 2>>
    /\ copy.posts[Len(copy.posts)].res = "ok"

====
